---- MODULE Spec2Model ----
(***************************************************************************)
(* Model of plist::XMLParser (Sources/plist/XMLParser.cpp): the SAX-style   *)
(* construction automaton that turns the driver's element / character-data *)
(* events into a tree of plist nodes.                                       *)
(*                                                                         *)
(* The automaton's fields keep their source names (_root, _state, _stack,   *)
(* _cdata).  Nodes live in a heap (a sequence indexed by node id, 0 is the  *)
(* null pointer); "released" counts the release() calls that reached a     *)
(* node, so 0 is a live node and 2 a double release.                        *)
(*                                                                         *)
(* The driver (BaseXMLParser) is not part of the sources; it is modelled   *)
(* from its callback contract: balanced events in document order, stop()   *)
(* ends delivery and is followed by onEndParse(false), error() only        *)
(* records a diagnostic.                                                    *)
(***************************************************************************)
EXTENDS Integers, Sequences, FiniteSets, TLC

\* ---------------------------------------------------------------- bounds
MaxSteps == 5       \* budget of parse runs and element-open events (see StartCost)
MaxCData == 1       \* character-data events the driver delivers
MaxParses == 2      \* calls of parse() on the one instance

NULL == 0

Names == {"plist", "array", "dict", "key", "string", "integer", "real",
          "true", "false", "null", "data", "date", "foo"}

ValueNames == {"array", "dict", "string", "integer", "real",
               "true", "false", "null", "data", "date"}

\* character data the driver hands over in one event
Texts == { <<" ">>, <<"1">>, <<" ", "a">> }

\* outcomes of dereferencing the null pointer a failed CastTo returns
UBOutcomes == {"crash", "skip"}

VARIABLES heap, _root, _state, _stack, _cdata,
          errors, stopped,
          phase, open, doc, result, spent, ncdata, nparse, lastEvent,
          produced

pvars == <<heap, _root, _state, _stack, _cdata, errors, stopped>>
vars  == <<heap, _root, _state, _stack, _cdata, errors, stopped,
           phase, open, doc, result, spent, ncdata, nparse, lastEvent,
           produced>>

\* ------------------------------------------------------------ text helpers
IsSpace(c) == c \in {" ", "\t", "\n", "\r"}

AllSpace(s) == \A i \in 1..Len(s) : IsSpace(s[i])

Digits == {"0", "1", "2", "3", "4", "5", "6", "7", "8", "9"}

DigitVal(c) == CASE c = "0" -> 0 [] c = "1" -> 1 [] c = "2" -> 2 [] c = "3" -> 3
                 [] c = "4" -> 4 [] c = "5" -> 5 [] c = "6" -> 6 [] c = "7" -> 7
                 [] c = "8" -> 8 [] c = "9" -> 9 [] OTHER -> 0

RECURSIVE SkipSpace(_)
SkipSpace(s) == IF s # <<>> /\ IsSpace(Head(s)) THEN SkipSpace(Tail(s)) ELSE s

RECURSIVE ReadDigits(_, _, _)
\* consumes the leading run of digits of s: [n |-> digits read, val |-> value]
ReadDigits(s, n, acc) ==
    IF s # <<>> /\ Head(s) \in Digits
    THEN ReadDigits(Tail(s), n + 1, acc * 10 + DigitVal(Head(s)))
    ELSE [n |-> n, val |-> acc]

\* std::stoi : leading white space is skipped, an optional sign, then the
\* longest run of digits; what follows the digits is ignored; no digit at
\* all throws std::invalid_argument (ok = FALSE).
stoi(s) ==
    LET t    == SkipSpace(s)
        neg  == t # <<>> /\ Head(t) = "-"
        sgn  == t # <<>> /\ Head(t) \in {"-", "+"}
        body == IF sgn THEN Tail(t) ELSE t
        r    == ReadDigits(body, 0, 0)
    IN  [ok |-> r.n > 0, val |-> IF neg THEN 0 - r.val ELSE r.val]

\* std::stod over the modelled alphabet (no '.', 'e', "inf", "nan" in it):
\* the same scan as stoi
stod(s) == stoi(s)

\* ------------------------------------------------------------------- nodes
Key0 == [value |-> <<>>, valid |-> FALSE, active |-> FALSE]

\* a freshly constructed node; site names the allocating statement
NewNode(ty, b, where) ==
    [type |-> ty, text |-> <<>>, num |-> 0, flag |-> b,
     keys |-> <<>>, kids |-> <<>>, released |-> 0, site |-> where]

RECURSIVE ReleaseAll(_, _)
RECURSIVE Release(_, _)
\* Object::release() on a node the caller owns: the node is destroyed and a
\* destroyed container releases the children it owns.  A release of a node
\* that is already destroyed is only counted.
Release(h, id) ==
    IF h[id].released > 0
    THEN [h EXCEPT ![id].released = @ + 1]
    ELSE ReleaseAll([h EXCEPT ![id].released = 1], h[id].kids)

ReleaseAll(h, ids) ==
    IF ids = <<>> THEN h ELSE ReleaseAll(Release(h, Head(ids)), Tail(ids))

CastTo(m, ty, id) == IF id # NULL /\ m.heap[id].type = ty THEN id ELSE NULL

\* Array::append : the array takes ownership of the child
ArrayAppend(h, a, child) == [h EXCEPT ![a].kids = Append(@, child)]

\* Dictionary::set : ordered map; a new key is appended, an existing key has
\* its value replaced and the replaced child is released
DictSet(h, d, k, child) ==
    LET ks  == h[d].keys
        hit == {i \in 1..Len(ks) : ks[i] = k}
    IN  IF hit = {}
        THEN [h EXCEPT ![d].keys = Append(@, k), ![d].kids = Append(@, child)]
        ELSE LET i == CHOOSE j \in hit : TRUE
             IN  Release([h EXCEPT ![d].kids[i] = child], h[d].kids[i])

\* -------------------------------------------------- the automaton's record
\* The handlers are operators over a record m of the automaton's fields:
\*   heap, root, state, stack, cdata  the fields of XMLParser
\*   errors, stopped                  what error() and stop() told the driver
\*   depth                            BaseXMLParser::depth() during the call
\*   ret                              the bool a begin/end handler returns
\*   fault                            "none", "throw" (an exception leaves
\*                                    the callback) or "crash"
\*   ub                               the outcome chosen for a null dereference
error(m, what) == [m EXCEPT !.errors = Append(@, what)]

stop(m) == [m EXCEPT !.stopped = TRUE]

Returning(m, b) == [m EXCEPT !.ret = b]

\* a typed store through a null pointer: undefined behaviour
NullDeref(m) == IF m.ub = "crash" THEN [m EXCEPT !.fault = "crash"] ELSE m

inArray(m) == CastTo(m, "Array", m.state.current) # NULL

inDictionary(m) == CastTo(m, "Dictionary", m.state.current) # NULL

inContainer(m) == m.depth = 1 \/ inDictionary(m) \/ inArray(m)

\* variant: looks at the active flag instead of the valid flag
isExpectingKey_activeFlag(m) == inDictionary(m) /\ ~m.state.key.active

isExpectingKey(m) == inDictionary(m) /\ ~m.state.key.valid

\* variant: the String case is missing
isExpectingCDATA_noString(m) ==
    \/ CastTo(m, "Integer", m.state.current) # NULL
    \/ CastTo(m, "Real", m.state.current) # NULL
    \/ (inDictionary(m) /\ m.state.key.active)

isExpectingCDATA(m) ==
    \/ CastTo(m, "Integer", m.state.current) # NULL
    \/ CastTo(m, "Real", m.state.current) # NULL
    \/ CastTo(m, "String", m.state.current) # NULL
    \/ (inDictionary(m) /\ m.state.key.active)

\* variant: every push records its node as the root
push_rootAlways(m, object) ==
    [m EXCEPT !.stack = IF m.state.current # NULL THEN Append(@, m.state) ELSE @,
              !.state = [current |-> object,
                         key |-> [m.state.key EXCEPT !.valid = FALSE,
                                                     !.active = FALSE]],
              !.root  = object]

push(m, object) ==
    [m EXCEPT !.stack = IF m.state.current # NULL THEN Append(@, m.state) ELSE @,
              !.state = [current |-> object,
                         key |-> [m.state.key EXCEPT !.valid = FALSE,
                                                     !.active = FALSE]],
              !.root  = IF m.root = NULL THEN object ELSE @]

\* variant: the restored frame is left on the stack
popFrame_keepFrame(m) ==
    IF m.stack = <<>>
    THEN [m EXCEPT !.fault = "crash"]
    ELSE
    LET old == m.state
        m1  == [m EXCEPT !.state = m.stack[Len(m.stack)]]
        cur == m1.state.current
    IN  IF CastTo(m1, "Array", cur) # NULL
        THEN [m1 EXCEPT !.heap = ArrayAppend(@, cur, old.current)]
        ELSE IF CastTo(m1, "Dictionary", cur) # NULL
        THEN IF ~isExpectingKey(m1)
             THEN [m1 EXCEPT !.heap = DictSet(@, cur, m1.state.key.value, old.current),
                             !.state.key.valid  = FALSE,
                             !.state.key.active = FALSE]
             ELSE m1
        ELSE m1

\* the body of "if (_state.current != _root)" in pop()
popFrame(m) ==
    IF m.stack = <<>>
    THEN [m EXCEPT !.fault = "crash"]      \* _stack.back() of an empty vector
    ELSE
    LET old == m.state
        m1  == [m EXCEPT !.state = m.stack[Len(m.stack)],
                         !.stack = SubSeq(m.stack, 1, Len(m.stack) - 1)]
        cur == m1.state.current
    IN  IF CastTo(m1, "Array", cur) # NULL
        THEN [m1 EXCEPT !.heap = ArrayAppend(@, cur, old.current)]
        ELSE IF CastTo(m1, "Dictionary", cur) # NULL
        THEN IF ~isExpectingKey(m1)
             THEN [m1 EXCEPT !.heap = DictSet(@, cur, m1.state.key.value, old.current),
                             !.state.key.valid  = FALSE,
                             !.state.key.active = FALSE]
             ELSE m1
        ELSE m1

\* variant: underflow is reported when either half of the test holds
pop_eitherEmpty(m) ==
    IF m.stack = <<>> \/ m.state.current = NULL
    THEN error(m, "stack underflow")
    ELSE LET m1 == IF m.state.current # m.root THEN popFrame(m) ELSE m
         IN  IF m1.fault # "none" THEN m1 ELSE [m1 EXCEPT !.cdata = <<>>]

pop(m) ==
    IF m.stack = <<>> /\ m.state.current = NULL
    THEN error(m, "stack underflow")
    ELSE LET m1 == IF m.state.current # m.root THEN popFrame(m) ELSE m
         IN  IF m1.fault # "none" THEN m1 ELSE [m1 EXCEPT !.cdata = <<>>]

\* X::New() followed by push()
pushNew(m, ty, b) ==
    push([m EXCEPT !.heap = Append(@, NewNode(ty, b, "New"))], Len(m.heap) + 1)

beginArray(m) == Returning(pushNew(m, "Array", FALSE), TRUE)

endArray(m) == Returning(pop(m), TRUE)

beginDictionary(m) ==
    Returning([pushNew(m, "Dictionary", FALSE) EXCEPT !.state.key.valid  = FALSE,
                                                      !.state.key.active = FALSE],
              TRUE)

endDictionary(m) == Returning(pop(m), TRUE)

beginString(m) == Returning([pushNew(m, "String", FALSE) EXCEPT !.cdata = <<>>], TRUE)

endString(m) ==
    LET s == CastTo(m, "String", m.state.current)
        m1 == IF s = NULL THEN NullDeref(m)
              ELSE [m EXCEPT !.heap[s].text = m.cdata]
    IN  IF m1.fault # "none" THEN m1 ELSE Returning(pop(m1), TRUE)

beginInteger(m) == Returning([pushNew(m, "Integer", FALSE) EXCEPT !.cdata = <<>>], TRUE)

endInteger(m) ==
    LET i == CastTo(m, "Integer", m.state.current)
        v == stoi(m.cdata)
        m1 == IF ~v.ok THEN [m EXCEPT !.fault = "throw"]
              ELSE IF i = NULL THEN NullDeref(m)
              ELSE [m EXCEPT !.heap[i].num = v.val]
    IN  IF m1.fault # "none" THEN m1 ELSE Returning(pop(m1), TRUE)

beginReal(m) == Returning([pushNew(m, "Real", FALSE) EXCEPT !.cdata = <<>>], TRUE)

\* the store goes through CastTo <Integer>, as in the source
endReal(m) ==
    LET i == CastTo(m, "Integer", m.state.current)
        v == stod(m.cdata)
        m1 == IF ~v.ok THEN [m EXCEPT !.fault = "throw"]
              ELSE IF i = NULL THEN NullDeref(m)
              ELSE [m EXCEPT !.heap[i].num = v.val]
    IN  IF m1.fault # "none" THEN m1 ELSE Returning(pop(m1), TRUE)

beginNull(m) == Returning(pushNew(m, "Null", FALSE), TRUE)

endNull(m) == Returning(pop(m), TRUE)

beginBoolean(m, value) == Returning(pushNew(m, "Boolean", value), TRUE)

endBoolean(m) == Returning(pop(m), TRUE)

beginData(m) == Returning([pushNew(m, "Data", FALSE) EXCEPT !.cdata = <<>>], TRUE)

\* text holds the string handed to setBase64Value
endData(m) ==
    LET d == CastTo(m, "Data", m.state.current)
        m1 == IF d = NULL THEN NullDeref(m)
              ELSE [m EXCEPT !.heap[d].text = m.cdata]
    IN  IF m1.fault # "none" THEN m1 ELSE Returning(pop(m1), TRUE)

beginDate(m) == Returning([pushNew(m, "Date", FALSE) EXCEPT !.cdata = <<>>], TRUE)

\* text holds the string handed to setStringValue
endDate(m) ==
    LET d == CastTo(m, "Date", m.state.current)
        m1 == IF d = NULL THEN NullDeref(m)
              ELSE [m EXCEPT !.heap[d].text = m.cdata]
    IN  IF m1.fault # "none" THEN m1 ELSE Returning(pop(m1), TRUE)

beginKey(m) ==
    Returning([m EXCEPT !.state.key.valid = FALSE, !.state.key.active = TRUE,
                        !.cdata = <<>>], TRUE)

\* variant: the key's text stays in the buffer
endKey_keepBuffer(m) ==
    Returning([m EXCEPT !.state.key.active = FALSE, !.state.key.valid = TRUE,
                        !.state.key.value = m.cdata], TRUE)

endKey(m) ==
    Returning([m EXCEPT !.state.key.active = FALSE, !.state.key.valid = TRUE,
                        !.state.key.value = m.cdata, !.cdata = <<>>], TRUE)

beginValue(m, name) ==
    CASE name = "array"   -> beginArray(m)
      [] name = "dict"    -> beginDictionary(m)
      [] name = "string"  -> beginString(m)
      [] name = "integer" -> beginInteger(m)
      [] name = "real"    -> beginReal(m)
      [] name = "true"    -> beginBoolean(m, TRUE)
      [] name = "false"   -> beginBoolean(m, FALSE)
      [] name = "null"    -> beginNull(m)
      [] name = "data"    -> beginData(m)
      [] name = "date"    -> beginDate(m)
      [] OTHER            -> Returning(error(m, "unexpected element"), FALSE)

\* variant: a value element is let into a dictionary that expects a key
beginObject_noKeyCheck(m, name) ==
    IF inDictionary(m) /\ name = "key"
    THEN IF ~isExpectingKey(m)
         THEN Returning(error(m, "key when expecting value"), FALSE)
         ELSE beginKey(m)
    ELSE IF ~inContainer(m)
    THEN Returning(error(m, "element in non-container"), FALSE)
    ELSE beginValue(m, name)

beginObject(m, name) ==
    IF inDictionary(m) /\ name = "key"
    THEN IF ~isExpectingKey(m)
         THEN Returning(error(m, "key when expecting value"), FALSE)
         ELSE beginKey(m)
    ELSE IF inDictionary(m) /\ isExpectingKey(m)
    THEN Returning(error(m, "element when key expected"), FALSE)
    ELSE IF ~inContainer(m)
    THEN Returning(error(m, "element in non-container"), FALSE)
    ELSE beginValue(m, name)

endObject(m, name) ==
    CASE name = "plist"   -> Returning(m, TRUE)
      [] name = "key"     -> endKey(m)
      [] name = "array"   -> endArray(m)
      [] name = "dict"    -> endDictionary(m)
      [] name = "string"  -> endString(m)
      [] name = "integer" -> endInteger(m)
      [] name = "real"    -> endReal(m)
      [] name \in {"true", "false"} -> endBoolean(m)
      [] name = "null"    -> endNull(m)
      [] name = "data"    -> endData(m)
      [] name = "date"    -> endDate(m)
      [] OTHER            -> Returning(error(m, "unexpected element"), FALSE)

onBeginParse(m) ==
    [m EXCEPT !.root = NULL, !.state.current = NULL,
              !.state.key.valid = FALSE, !.state.key.active = FALSE]

RECURSIVE releaseFrames_noRootCheck(_, _, _)
\* variant: the loop does not skip a frame that holds the root
releaseFrames_noRootCheck(m, h, frames) ==
    IF frames = <<>> THEN h
    ELSE LET s == Head(frames)
         IN  releaseFrames_noRootCheck(m,
                 IF s.current # m.state.current
                 THEN Release(h, s.current) ELSE h,
                 Tail(frames))

RECURSIVE releaseFrames(_, _, _)
\* the loop "for (auto s : _stack)" of onEndParse
releaseFrames(m, h, frames) ==
    IF frames = <<>> THEN h
    ELSE LET s == Head(frames)
         IN  releaseFrames(m,
                 IF s.current # m.state.current /\ s.current # m.root
                 THEN Release(h, s.current) ELSE h,
                 Tail(frames))

\* variant: the failure branch releases the root but keeps the handle
onEndParse_keepRoot(m, success) ==
    LET h1 == IF m.state.current # NULL /\ m.state.current # m.root
              THEN Release(m.heap, m.state.current) ELSE m.heap
        h2 == releaseFrames(m, h1, m.stack)
        h3 == IF m.root # NULL THEN Release(h2, m.root) ELSE h2
        m1 == IF success THEN m
              ELSE [m EXCEPT !.heap = h3, !.stack = <<>>]
    IN  [m1 EXCEPT !.state.current = NULL, !.state.key.valid = FALSE,
                   !.state.key.active = FALSE, !.cdata = <<>>]

onEndParse(m, success) ==
    LET h1 == IF m.state.current # NULL /\ m.state.current # m.root
              THEN Release(m.heap, m.state.current) ELSE m.heap
        h2 == releaseFrames(m, h1, m.stack)
        h3 == IF m.root # NULL THEN Release(h2, m.root) ELSE h2
        m1 == IF success THEN m
              ELSE [m EXCEPT !.heap = h3, !.stack = <<>>, !.root = NULL]
    IN  [m1 EXCEPT !.state.current = NULL, !.state.key.valid = FALSE,
                   !.state.key.active = FALSE, !.cdata = <<>>]

onStartElement(m, name, depth) ==
    LET m0 == [m EXCEPT !.heap = Append(@, NewNode("Dictionary", FALSE, "onStartElement"))]
    IN  IF depth = 0
        THEN IF name # "plist" THEN error(m0, "expecting plist") ELSE m0
        ELSE IF depth = 1 /\ m0.root # NULL
        THEN error(m0, "element after root")
        ELSE LET r == beginObject(m0, name)
             IN  IF ~r.ret THEN stop(r) ELSE r

onEndElement(m, name) ==
    LET r == endObject(m, name)
    IN  IF r.fault # "none" THEN r
        ELSE IF ~r.ret THEN stop(r) ELSE r

RECURSIVE scanCData(_, _, _)
\* the loop over the characters of an unexpected character-data event
scanCData(m, text, n) ==
    IF n > Len(text) THEN m
    ELSE scanCData(IF ~IsSpace(text[n]) THEN stop(error(m, "unexpected cdata")) ELSE m,
                   text, n + 1)

onCharacterData(m, text) ==
    IF ~isExpectingCDATA(m)
    THEN scanCData(m, text, 1)
    ELSE [m EXCEPT !.cdata = @ \o text]

\* ------------------------------------------------------------- the driver
\* The machine record a callback starts from.  d is what depth() returns for
\* the duration of the callback.
Machine(d, u) ==
    [heap |-> heap, root |-> _root, state |-> _state, stack |-> _stack,
     cdata |-> _cdata, errors |-> errors, stopped |-> stopped,
     depth |-> d, ret |-> TRUE, fault |-> "none", ub |-> u]

Commit(m) ==
    /\ heap' = m.heap
    /\ _root' = m.root
    /\ _state' = m.state
    /\ _stack' = m.stack
    /\ _cdata' = m.cdata
    /\ errors' = m.errors
    /\ stopped' = m.stopped

Event(k, nm, t, nd, d, b) ==
    [kind |-> k, name |-> nm, text |-> t, node |-> nd, n |-> d, ok |-> b]

\* what a callback that did not return normally leaves the run in
PhaseAfter(m) == CASE m.fault = "throw" -> "thrown"
                   [] m.fault = "crash" -> "crashed"
                   [] OTHER             -> "parsing"

Top(s) == s[Len(s)]

\* The constructor sets _root only; the other fields are first read after
\* onBeginParse (current, key flags) or a begin handler (buffer) wrote them.
Init ==
    /\ heap = <<>>
    /\ _root = NULL
    /\ _state = [current |-> NULL, key |-> Key0]
    /\ _stack = <<>>
    /\ _cdata = <<>>
    /\ errors = <<>>
    /\ stopped = FALSE
    /\ phase = "idle"
    /\ open = <<>>
    /\ doc = <<>>
    /\ result = NULL
    /\ spent = 0
    /\ ncdata = 0
    /\ nparse = 0
    /\ produced = FALSE
    /\ lastEvent = Event("none", "", <<>>, NULL, 0, TRUE)

\* XMLParser::parse on an instance that holds a root: refused, the driver
\* is not entered
ParseRefused ==
    /\ phase \in {"idle", "returned"}
    /\ nparse < MaxParses
    /\ _root # NULL
    /\ result' = NULL
    /\ phase' = "returned"
    /\ nparse' = nparse + 1
    /\ lastEvent' = Event("refused", "", <<>>, NULL, 0, FALSE)
    /\ UNCHANGED <<heap, _root, _state, _stack, _cdata, errors, stopped,
                   open, doc, spent, ncdata, produced>>

\* parse entering the driver whether or not the instance holds a root
ParseBegin_reentrant ==
    /\ phase \in {"idle", "returned"}
    /\ nparse < MaxParses
    /\ spent < MaxSteps
    /\ Commit(onBeginParse([Machine(0, "crash") EXCEPT !.errors = <<>>,
                                                       !.stopped = FALSE]))
    /\ phase' = "parsing"
    /\ open' = <<>>
    /\ doc' = <<>>
    /\ result' = NULL
    /\ nparse' = nparse + 1
    /\ spent' = spent + 1
    /\ lastEvent' = Event("begin", "", <<>>, NULL, 0, TRUE)
    /\ UNCHANGED <<ncdata, produced>>

\* XMLParser::parse entering BaseXMLParser::parse, which starts a run with
\* a clean diagnostic state and calls onBeginParse
ParseBegin ==
    /\ phase \in {"idle", "returned"}
    /\ nparse < MaxParses
    /\ spent < MaxSteps
    /\ _root = NULL
    /\ Commit(onBeginParse([Machine(0, "crash") EXCEPT !.errors = <<>>,
                                                       !.stopped = FALSE]))
    /\ phase' = "parsing"
    /\ open' = <<>>
    /\ doc' = <<>>
    /\ result' = NULL
    /\ nparse' = nparse + 1
    /\ spent' = spent + 1
    /\ lastEvent' = Event("begin", "", <<>>, NULL, 0, TRUE)
    /\ UNCHANGED <<ncdata, produced>>

\* What an element-open event takes from the MaxSteps budget (entering a
\* run takes one).  An element
\* the document shape does not admit is handled the same for every one of
\* the names, and the events below it are handled as they are in a
\* plist document, so runs through such events are explored less deep than
\* the others: a wrapper that is not plist is charged three times, an
\* element after the root twice.
StartCost(name, d) ==
    IF d = 0 /\ name # "plist" THEN 3
    ELSE IF d = 1 /\ _root # NULL THEN 2
    ELSE 1

\* the driver opens an element at depth Len(open)
StartElement ==
    \E name \in Names :
        LET d == Len(open)
            m == Machine(d, "crash")
            r == onStartElement(m, name, d)
            \* the node a begin handler allocated for this element, if any
            made == IF Len(r.heap) > Len(m.heap) + 1 THEN Len(r.heap) ELSE NULL
        IN  /\ phase = "parsing"
            /\ ~stopped
            /\ doc = <<>>
            /\ spent + StartCost(name, d) <= MaxSteps
            /\ Commit(r)
            /\ open' = Append(open, [name |-> name, node |-> made,
                                     text |-> <<>>, kids |-> <<>>])
            /\ spent' = spent + StartCost(name, d)
            /\ lastEvent' = Event("start", name, <<>>, made, d, TRUE)
            /\ UNCHANGED <<phase, doc, result, ncdata, nparse, produced>>

\* the driver hands over character data found inside the innermost element
CharacterData ==
    \E text \in Texts :
        LET m == Machine(Len(open), "crash")
            r == onCharacterData(m, text)
        IN  /\ phase = "parsing"
            /\ ~stopped
            /\ open # <<>>
            /\ ncdata < MaxCData
            /\ Commit(r)
            /\ open' = [open EXCEPT ![Len(open)].text = @ \o text]
            /\ ncdata' = ncdata + 1
            /\ lastEvent' = Event("cdata", Top(open).name, text,
                                  Top(open).node, Len(open), TRUE)
            /\ UNCHANGED <<phase, doc, result, spent, nparse, produced>>

\* the driver closes the innermost open element
EndElement ==
    \E u \in UBOutcomes :
        LET e == Top(open)
            d == Len(open) - 1
            m == Machine(d, u)
            r == onEndElement(m, e.name)
            v == [name |-> e.name, text |-> e.text, kids |-> e.kids]
        IN  /\ phase = "parsing"
            /\ ~stopped
            /\ open # <<>>
            /\ Commit(r)
            /\ phase' = PhaseAfter(r)
            /\ open' = IF d = 0 THEN <<>>
                       ELSE [SubSeq(open, 1, d) EXCEPT ![d].kids = Append(@, v)]
            /\ doc' = IF d = 0 THEN <<v>> ELSE doc
            /\ lastEvent' = Event("end", e.name, e.text, e.node, d, TRUE)
            /\ UNCHANGED <<result, spent, ncdata, nparse, produced>>

\* the document element is closed and nothing asked to stop: the driver
\* reports success and XMLParser::parse returns _root
EndParseOk ==
    LET r == onEndParse(Machine(0, "crash"), TRUE)
    IN  /\ phase = "parsing"
        /\ ~stopped
        /\ open = <<>>
        /\ doc # <<>>
        /\ Commit(r)
        /\ result' = r.root
        /\ phase' = "returned"
        /\ produced' = (produced \/ r.root # NULL)
        /\ lastEvent' = Event("endparse", "", <<>>, NULL, Len(_stack), TRUE)
        /\ UNCHANGED <<open, doc, spent, ncdata, nparse>>

\* stop() was called, or the tokenizer itself failed (possible at any
\* point of the input): onEndParse(false), XMLParser::parse returns null
EndParseFail ==
    LET r == onEndParse(Machine(0, "crash"), FALSE)
    IN  /\ phase = "parsing"
        /\ Commit(r)
        /\ result' = NULL
        /\ phase' = "returned"
        /\ lastEvent' = Event("endparse", "", <<>>, NULL, Len(_stack), FALSE)
        /\ UNCHANGED <<open, doc, spent, ncdata, nparse, produced>>

Next ==
    \/ ParseRefused
    \/ ParseBegin
    \/ StartElement
    \/ CharacterData
    \/ EndElement
    \/ EndParseOk
    \/ EndParseFail

Spec == Init /\ [][Next]_vars

\* ------------------------------------------------- the document delivered
\* open and doc record the document as the driver delivered it: an element
\* is [name, text, kids], text the character data found directly inside it
\* and kids its closed child elements in document order.
Last(s) == s[Len(s)]

NamesOf(kids) == [i \in 1..Len(kids) |-> kids[i].name]

AllDigits(t) == \A i \in 1..Len(t) : t[i] \in Digits

\* the content model of the plist vocabulary: may an element called name
\* hold the children cn (names, in order) and the text t?  closed tells
\* whether the element is complete or may still receive content.
ContentOK(name, cn, t, closed) ==
    CASE name = "plist" ->
             /\ AllSpace(t)
             /\ Len(cn) <= 1
             /\ \A i \in 1..Len(cn) : cn[i] \in ValueNames
             /\ closed => Len(cn) = 1
      [] name = "array" ->
             /\ AllSpace(t)
             /\ \A i \in 1..Len(cn) : cn[i] \in ValueNames
      [] name = "dict" ->
             /\ AllSpace(t)
             /\ \A i \in 1..Len(cn) :
                    IF i % 2 = 1 THEN cn[i] = "key" ELSE cn[i] \in ValueNames
             /\ closed => Len(cn) % 2 = 0
      [] name \in {"string", "key", "data", "date"} -> cn = <<>>
      [] name \in {"integer", "real"} ->
             /\ cn = <<>>
             /\ AllDigits(t)
             /\ closed => t # <<>>
      [] name \in {"true", "false", "null"} -> cn = <<>> /\ t = <<>>
      [] OTHER -> FALSE

\* the keys of a dictionary element are pairwise different
UniqueKeys(kids) ==
    \A i, j \in 1..Len(kids) :
        (i # j /\ kids[i].name = "key" /\ kids[j].name = "key")
            => kids[i].text # kids[j].text

RECURSIVE WFValue(_)
WFValue(v) ==
    /\ ContentOK(v.name, NamesOf(v.kids), v.text, TRUE)
    /\ v.name = "dict" => UniqueKeys(v.kids)
    /\ \A i \in 1..Len(v.kids) : WFValue(v.kids[i])

\* everything delivered so far is the beginning of a well-formed document
DocPrefixWF ==
    /\ open # <<>> => open[1].name = "plist"
    /\ \A i \in 1..Len(open) :
           LET e  == open[i]
               cn == NamesOf(e.kids) \o
                     (IF i < Len(open) THEN <<open[i + 1].name>> ELSE <<>>)
           IN  /\ ContentOK(e.name, cn, e.text, FALSE)
               /\ e.name = "dict" => UniqueKeys(e.kids)
               /\ \A k \in 1..Len(e.kids) : WFValue(e.kids[k])
    /\ doc # <<>> => (doc[1].name = "plist" /\ WFValue(doc[1]))

RECURSIVE Decimal(_, _)
\* the number a string of digits denotes
Decimal(t, acc) ==
    IF t = <<>> THEN acc ELSE Decimal(Tail(t), acc * 10 + DigitVal(Head(t)))

Shape(ty, t, n, b, ks, cs) ==
    [type |-> ty, text |-> t, num |-> n, flag |-> b, keys |-> ks, kids |-> cs]

RECURSIVE Tree(_, _)
\* the value tree below node id
Tree(h, id) ==
    Shape(h[id].type, h[id].text, h[id].num, h[id].flag, h[id].keys,
          [i \in 1..Len(h[id].kids) |-> Tree(h, h[id].kids[i])])

RECURSIVE ExpTree(_)
\* the value tree a well-formed value element denotes
ExpTree(v) ==
    CASE v.name = "array" ->
             Shape("Array", <<>>, 0, FALSE, <<>>,
                   [i \in 1..Len(v.kids) |-> ExpTree(v.kids[i])])
      [] v.name = "dict" ->
             Shape("Dictionary", <<>>, 0, FALSE,
                   [i \in 1..(Len(v.kids) \div 2) |-> v.kids[2 * i - 1].text],
                   [i \in 1..(Len(v.kids) \div 2) |-> ExpTree(v.kids[2 * i])])
      [] v.name = "string"  -> Shape("String", v.text, 0, FALSE, <<>>, <<>>)
      [] v.name = "integer" -> Shape("Integer", <<>>, Decimal(v.text, 0), FALSE, <<>>, <<>>)
      [] v.name = "real"    -> Shape("Real", <<>>, Decimal(v.text, 0), FALSE, <<>>, <<>>)
      [] v.name = "true"    -> Shape("Boolean", <<>>, 0, TRUE, <<>>, <<>>)
      [] v.name = "false"   -> Shape("Boolean", <<>>, 0, FALSE, <<>>, <<>>)
      [] v.name = "null"    -> Shape("Null", <<>>, 0, FALSE, <<>>, <<>>)
      [] v.name = "data"    -> Shape("Data", v.text, 0, FALSE, <<>>, <<>>)
      [] v.name = "date"    -> Shape("Date", v.text, 0, FALSE, <<>>, <<>>)

\* the step delivers an element-open, character-data or element-close event
StartStep == lastEvent'.kind = "start" /\ spent' # spent
CDataStep == lastEvent'.kind = "cdata" /\ ncdata' # ncdata
EndStep   == lastEvent'.kind = "end" /\ Len(open') = Len(open) - 1 /\ phase = "parsing"
ReturnStep == phase = "parsing" /\ phase' = "returned"

\* the name of the depth-0 element of the run
Wrapper == IF open # <<>> THEN open[1].name
           ELSE IF doc # <<>> THEN doc[1].name ELSE ""

\* ================================================================= claims

\* C1: for every well-formed document (every prefix of one, as far as the
\* driver has delivered it) no error is reported, stop is never signalled,
\* no callback is left abnormally, and when the run has returned with
\* success the result is a root whose tree mirrors the document: array
\* children in document order, dict values under the key that preceded
\* them, leaves holding the value of their text.
C1_WellFormedMirrored ==
    (phase # "idle" /\ DocPrefixWF) =>
        /\ errors = <<>>
        /\ ~stopped
        /\ phase \notin {"thrown", "crashed"}
        /\ (phase = "returned" /\ lastEvent.kind = "endparse" /\ lastEvent.ok)
               => /\ result # NULL
                  /\ Tree(heap, result) = ExpTree(doc[1].kids[1])

\* C2: under a plist wrapper, an element-open event at depth 1 that follows
\* another depth-1 element reports "element after root" and signals stop in
\* the same callback, and a run that saw two depth-1 elements returns null.
C2_SecondRootAborts ==
    [][ /\ (StartStep /\ Len(open) = 1 /\ open[1].name = "plist"
                      /\ open[1].kids # <<>>)
               => /\ errors' = Append(errors, "element after root")
                  /\ stopped'
        /\ (ReturnStep /\ Wrapper = "plist"
                       /\ Len(IF open # <<>> THEN open[1].kids ELSE doc[1].kids) >= 2)
               => result' = NULL
      ]_vars

\* C3: a depth-0 element-open event whose name is not plist reports an
\* error and creates no node, and the run it belongs to returns null.
C3_WrongWrapperFatal ==
    [][ /\ (StartStep /\ open = <<>> /\ lastEvent'.name # "plist")
               => /\ errors' = Append(errors, "expecting plist")
                  /\ heap' = heap
        /\ (ReturnStep /\ Wrapper \notin {"", "plist"}) => result' = NULL
      ]_vars

NoNumber(t) == \A i \in 1..Len(t) : t[i] \notin Digits

\* C5: in a plist document, after the close event of an admitted integer or
\* real element whose text is not a number, the callback has returned normally (the run is
\* still in the driver, or has returned null), an error is reported and
\* stop is signalled.
C5_MalformedNumberStops ==
    (/\ Wrapper = "plist"
     /\ lastEvent.kind = "end"
     /\ lastEvent.name \in {"integer", "real"}
     /\ lastEvent.node # NULL
     /\ NoNumber(lastEvent.text))
        => /\ phase = "parsing"
           /\ stopped
           /\ errors # <<>>

\* what the automaton's fields say about expecting character data
ExpectingText ==
    LET c == _state.current
    IN  /\ c # NULL
        /\ \/ heap[c].type \in {"String", "Integer", "Real"}
           \/ (heap[c].type = "Dictionary" /\ _state.key.active)

C7_DataDateText ==
    /\ (phase = "parsing" /\ open # <<>> /\ Wrapper = "plist"
                          /\ Top(open).name \in {"data", "date"}
                          /\ Top(open).node # NULL)
           => /\ ~stopped
              /\ _cdata = Top(open).text
    /\ (Wrapper = "plist" /\ lastEvent.kind = "end"
                           /\ lastEvent.name \in {"data", "date"}
                           /\ lastEvent.node # NULL)
           => /\ phase = "parsing"
              /\ heap[lastEvent.node].text = lastEvent.text

\* C8: after a failed parse every node allocated so far, by whichever
\* statement, has been released.
C8_NoLeakAfterFailure ==
    (lastEvent.kind = "endparse" /\ ~lastEvent.ok)
        => \A id \in 1..Len(heap) : heap[id].released >= 1

\* C9: no node is ever released twice, whatever state the rollback of
\* onEndParse(false) starts from.
C9_NoDoubleRelease ==
    \A id \in 1..Len(heap) : heap[id].released <= 1

\* C9 witness: a parse failed with two frames saved, and the root and both
\* unattached descendants were each released once
C9_Witness ==
    /\ lastEvent.kind = "endparse"
    /\ ~lastEvent.ok
    /\ lastEvent.n >= 2
    /\ Cardinality({id \in 1..Len(heap) :
                       heap[id].site = "New" /\ heap[id].released = 1}) >= 3

\* C10: a callback that reports an error signals stop before it returns,
\* and once an error has been reported no later event changes the heap.
C10_OneErrorTerminates ==
    [][ /\ (phase = "parsing" /\ errors' # errors) => stopped'
        /\ (phase = "parsing" /\ errors # <<>>
                /\ (StartStep \/ CDataStep \/ EndStep)) => heap' = heap
      ]_vars

\* C11: once a parse on the instance has returned a root, every later call
\* of parse returns null without entering the driver: no callback runs, and
\* root, current, stack, pending key, buffer and heap are unchanged.
C11_RootedInstanceRefuses ==
    [][ (produced /\ nparse' # nparse)
            => /\ result' = NULL
               /\ lastEvent'.kind = "refused"
               /\ UNCHANGED <<pvars, open, doc>>
      ]_vars

\* C11 witness: a parse returned a root and a later call was refused
C11_Witness ==
    /\ produced
    /\ lastEvent.kind = "refused"
    /\ result = NULL
    /\ _root # NULL
    /\ heap[_root].released = 0

\* C12: once a handler has signalled stop, the only event the driver
\* delivers is onEndParse(false); that step ends the run with the root
\* handle empty, the frame stack empty, no current node, the pending key
\* invalid and inactive and the buffer empty, and parse returns null.
C12_StopEndsRun ==
    [][ (phase = "parsing" /\ stopped)
            => /\ lastEvent'.kind = "endparse"
               /\ ~lastEvent'.ok
               /\ phase' = "returned"
               /\ _root' = NULL
               /\ _stack' = <<>>
               /\ _state'.current = NULL
               /\ ~_state'.key.valid
               /\ ~_state'.key.active
               /\ _cdata' = <<>>
               /\ result' = NULL
      ]_vars

\* C12 witness: a run that built a root and saved a frame was stopped by a
\* handler and has ended in the clean state
C12_Witness ==
    /\ stopped
    /\ errors # <<>>
    /\ phase = "returned"
    /\ lastEvent.kind = "endparse"
    /\ ~lastEvent.ok
    /\ lastEvent.n >= 1
    /\ _root = NULL
    /\ _stack = <<>>
    /\ _state.current = NULL
    /\ ~_state.key.valid
    /\ ~_state.key.active
    /\ _cdata = <<>>
    /\ result = NULL

\* the root element has been closed: a root exists and no open element is
\* the one that allocated it
RootClosed ==
    /\ phase = "parsing"
    /\ _root # NULL
    /\ \A i \in 1..Len(open) : open[i].node # _root

\* C13: once the root element of a plist document has been closed, no later
\* start, character-data or end event changes the root node (its value, its
\* children, its keys) or the frame stack.
C13_RootTerminal ==
    [][ (Wrapper = "plist" /\ RootClosed /\ (StartStep \/ CDataStep \/ EndStep))
            => /\ heap'[_root] = heap[_root]
               /\ _stack' = _stack
      ]_vars

\* the open elements below the wrapper, without the key elements open at
\* depth 2 or deeper (open[i] is the open element at depth i - 1)
OpenValues == {i \in 2..Len(open) : ~(i >= 3 /\ open[i].name = "key")}

\* C14 (as stated): inside the body of a plist document, with no stop
\* signalled, the number of saved frames is the nesting depth of the
\* innermost open element minus 1, also while a key element is open.
C14_FramesMatchDepth ==
    (phase = "parsing" /\ ~stopped /\ Wrapper = "plist" /\ Len(open) >= 2)
        => Len(_stack) = (Len(open) - 1) - 1

\* C14 (amended): the same with the key elements open at depth 2 or deeper
\* left out of the depth: the number of saved frames is the number of the
\* other open elements below the wrapper, minus 1.
C14_FramesMatchValueDepth ==
    (phase = "parsing" /\ ~stopped /\ Wrapper = "plist" /\ OpenValues # {})
        => Len(_stack) = Cardinality(OpenValues) - 1

\* C14 witness: a key element is open inside a dictionary nested in an array
C14_Witness ==
    /\ phase = "parsing"
    /\ ~stopped
    /\ Wrapper = "plist"
    /\ Len(open) = 4
    /\ open[4].name = "key"
    /\ open[3].name = "dict"
    /\ _state.key.active
    /\ Len(_stack) = 1

LeafNames == {"string", "integer", "real", "data", "date"}

\* the node type a leaf element's begin handler allocates
LeafType(name) ==
    CASE name = "string"  -> "String"
      [] name = "integer" -> "Integer"
      [] name = "real"    -> "Real"
      [] name = "data"    -> "Data"
      [] name = "date"    -> "Date"
      [] OTHER            -> ""

\* C15: when the driver closes a leaf element of a plist document that its
\* open event admitted (numeric text where a number is read), the current
\* node is the node that open event allocated and has the element's type,
\* the end handler's cast yields that node (the callback returns), and a
\* real element's value is stored into its Real node.
C15_LeafCloseTyped ==
    [][ (/\ EndStep
         /\ Wrapper = "plist"
         /\ Top(open).name \in LeafNames
         /\ Top(open).node # NULL
         /\ (Top(open).name \in {"integer", "real"} => stoi(Top(open).text).ok))
            => /\ _state.current = Top(open).node
               /\ heap[_state.current].type = LeafType(Top(open).name)
               /\ phase' = "parsing"
               /\ (Top(open).name = "real"
                      => heap'[Top(open).node].num = stod(Top(open).text).val)
      ]_vars

\* C16: whenever the close of an element makes pop restore a frame whose
\* node is a dictionary, that frame's pending key is valid, the completed
\* child is stored in the dictionary under that key's value, and after the
\* step the key's valid and active flags are both false.
C16_DictFrameKeyValid ==
    [][ (/\ EndStep
         /\ Len(_stack') = Len(_stack) - 1
         /\ heap[Last(_stack).current].type = "Dictionary")
            => LET f == Last(_stack)
                   d == f.current
               IN  /\ f.key.valid
                   /\ _state'.current = d
                   /\ \E i \in 1..Len(heap'[d].keys) :
                          /\ heap'[d].keys[i] = f.key.value
                          /\ heap'[d].kids[i] = _state.current
                   /\ ~_state'.key.valid
                   /\ ~_state'.key.active
      ]_vars

\* C16 witness: the value of a key with a non-empty name has just been
\* closed and is the dictionary's child under that name
C16_Witness ==
    /\ phase = "parsing"
    /\ lastEvent.kind = "end"
    /\ lastEvent.node # NULL
    /\ _state.current # NULL
    /\ heap[_state.current].type = "Dictionary"
    /\ heap[_state.current].keys # <<>>
    /\ Last(heap[_state.current].keys) # <<>>
    /\ Last(heap[_state.current].kids) = lastEvent.node
    /\ ~_state.key.valid
    /\ ~_state.key.active

\* C17: in a plist document whose root is still open or not yet opened, a
\* key open event whose innermost open element is not a dict (the key is at
\* depth 1, inside an array, inside a leaf element, or inside another key
\* that is still open) reports an error and signals stop.
C17_KeyOnlyInDict ==
    [][ (/\ StartStep
         /\ lastEvent'.name = "key"
         /\ Wrapper = "plist"
         /\ ~RootClosed
         /\ Top(open).name # "dict")
            => /\ errors' # errors
               /\ stopped'
      ]_vars

\* C18: between onBeginParse and onEndParse the root handle is written at
\* most once: an event changes it only from empty, to the node the open
\* event of a depth-1 element allocated, and once set no event changes it.
C18_RootWrittenOnce ==
    [][ ((StartStep \/ CDataStep \/ EndStep) /\ _root' # _root)
            => /\ _root = NULL
               /\ lastEvent'.kind = "start"
               /\ lastEvent'.n = 1
               /\ lastEvent'.node # NULL
               /\ _root' = lastEvent'.node
               /\ _state'.current = _root'
      ]_vars

\* C18 witness: a second node has been pushed below the root and the root
\* handle still names the first
C18_Witness ==
    /\ phase = "parsing"
    /\ _root # NULL
    /\ _stack # <<>>
    /\ _stack[1].current = _root
    /\ _state.current # _root
    /\ heap[_root].site = "New"

\* C19: in a run whose depth-0 element is named plist, pop is never
\* invoked with the stack empty and no current node: the stack-underflow
\* error is never reported.
C19_NoUnderflowInPlist ==
    Wrapper = "plist"
        => \A i \in 1..Len(errors) : errors[i] # "stack underflow"

\* C19 witness: a plist document has been delivered to its end, with a
\* container and a child in it closed by pop, and no error was reported
C19_Witness ==
    /\ phase = "parsing"
    /\ open = <<>>
    /\ doc # <<>>
    /\ doc[1].name = "plist"
    /\ doc[1].kids # <<>>
    /\ doc[1].kids[1].kids # <<>>
    /\ errors = <<>>
    /\ _stack = <<>>
    /\ _state.current = _root

\* C20: between onBeginParse and onEndParse a non-empty character-data
\* buffer implies that the automaton expects character data: the current
\* node is a string, integer or real leaf, or a dictionary whose key is
\* active.
C20_BufferOnlyWhenExpected ==
    (phase = "parsing" /\ _cdata # <<>>)
        => /\ _state.current # NULL
           /\ \/ heap[_state.current].type \in {"String", "Integer", "Real"}
              \/ (heap[_state.current].type = "Dictionary" /\ _state.key.active)

\* C20 witness: an array has been opened as the value of a key with a
\* non-empty name; its begin handler clears nothing and the buffer is empty
C20_Witness ==
    /\ phase = "parsing"
    /\ ~stopped
    /\ lastEvent.kind = "start"
    /\ lastEvent.name = "array"
    /\ _stack # <<>>
    /\ Last(_stack).key.valid
    /\ Last(_stack).key.value # <<>>
    /\ heap[_state.current].type = "Array"
    /\ _cdata = <<>>

====
